---- MODULE Spec2Model ----
(***************************************************************************)
(* M3U8PlaylistLoader (m3u8-playlist-loader, src/unnamed/part_000): the    *)
(* playlist loader state machine, the segment/master merge functions and   *)
(* the live window bookkeeping.                                            *)
(*                                                                         *)
(* Reading of the source.  Names the file never declares are read as what  *)
(* they denote: parser.mainfest is parser.manifest, this.srcURL is         *)
(* this.url, the undeclared i/playlist/loader of start() are locals and    *)
(* this, this.trigger(e) emits notification e, this.hls_.xhr(opts, cb) is  *)
(* the HTTP collaborator (an XHR-like handle with url and abort(), cb      *)
(* bound to the loader).  Values the platform defines behave as the        *)
(* platform defines them: start() stores in _xhr the Promise returned by   *)
(* fetch(...).then(...).catch(...), a Promise has neither url nor          *)
(* abort(), so calling abort() on it throws a TypeError and the method     *)
(* that called it ends there; fetch() rejects only on a network failure,   *)
(* and nothing cancels the callbacks chained on the Promise.  An XHR       *)
(* handle whose abort() was called never calls back.                       *)
(*                                                                         *)
(* Absent (undefined) numeric fields are NoNum; endList is TRUE when the   *)
(* tag was seen and FALSE when the field is absent; a null object          *)
(* reference is 0.                                                         *)
(***************************************************************************)
EXTENDS Integers, Sequences, FiniteSets, TLC

\* ---- bounds of the model
NumRenditions == 2
MaxRequests == 4
MaxSegments == 2

\* ---- values
NoNum == -1
MasterUrl == 10

URIs == 1..NumRenditions
Refs == 1..NumRenditions

Min(a, b) == IF a < b THEN a ELSE b

\* resolveURL(base, relative): an absolute URI, injective in the relative part
ResolveURL(base, rel) == base * 10 + rel

\* ---- the parser's output
\* a segment without EXT-X-KEY, without EXT-X-MAP: the property is absent
NoKey == [uri |-> NoNum, resolvedUri |-> NoNum]

MkSeg(id) ==
    [uri |-> id, duration |-> 4, start |-> NoNum, end |-> NoNum,
     resolvedUri |-> NoNum, key |-> NoKey, map |-> NoKey]

MkSegs(s, n) == [k \in 1..n |-> MkSeg(s + k - 1)]

\* the media sequence numbers of the manifests served
SeqNumbers == {0, 1}

\* the EXT-X-TARGETDURATION of the manifests served: absent, or 6 seconds
TargetDurations == {NoNum, 6}

\* a parsed media manifest, a window of two segments: segments and
\* mediaSequence are always present, targetDuration and endList only when
\* their tags are.  The manifests served: a live window at either media
\* sequence, a live window without EXT-X-TARGETDURATION, a finished playlist
Manifests ==
    { m \in { [segments |-> MkSegs(s, 2), mediaSequence |-> s,
               targetDuration |-> td, endList |-> e] :
                 s \in SeqNumbers, td \in TargetDurations, e \in BOOLEAN } :
        /\ (m.targetDuration = NoNum \/ m.endList) => m.mediaSequence = 0
        /\ ~(m.targetDuration = NoNum /\ m.endList) }

\* a rendition of the master before its media playlist was loaded
Stub(u) ==
    [uri |-> u, resolvedUri |-> ResolveURL(MasterUrl, u), hasSegments |-> FALSE,
     segments |-> <<>>, mediaSequence |-> NoNum, targetDuration |-> NoNum,
     endList |-> FALSE]

NoMaster ==
    [present |-> FALSE, uri |-> NoNum, playlists |-> <<>>,
     byUri |-> [u \in URIs |-> 0]]

\* the master of start(): playlists by index and by URI name the same objects
ParsedMaster ==
    [present |-> TRUE, uri |-> MasterUrl,
     playlists |-> [i \in 1..NumRenditions |-> i],
     byUri |-> [u \in URIs |-> u]]

\* the values of this._xhr: null, the Promise of start(), a handle of hls_.xhr
NoXhr == [kind |-> "null", id |-> 0, url |-> NoNum]
PromiseXhr == [kind |-> "promise", id |-> 0, url |-> NoNum]
XhrHandle(id, url) == [kind |-> "xhr", id |-> id, url |-> url]
NoTimeout == [pending |-> FALSE, delay |-> NoNum]
NoError == [playlist |-> 0, status |-> NoNum, code |-> 0]

\* no merge function was called on its own
NoCall ==
    [fn |-> "none", original |-> <<>>, update |-> <<>>, offset |-> 0,
     threw |-> FALSE, result |-> <<>>]

VARIABLES
    state,              \* this.state
    started,            \* this.started
    master,             \* this.master (present = defined)
    objs,               \* the playlist objects of the master, by reference
    media_,             \* this._media: a reference, 0 = null
    xhr_,               \* this._xhr
    bandwidth,          \* this.bandwidth
    refreshDelay,       \* this.refreshDelay
    targetDuration,     \* this.targetDuration
    expired_,           \* this.expired_
    trackExpiredTime_,  \* this.trackExpiredTime_
    error,              \* this.error
    mediaUpdateTimeout, \* the timer this.mediaUpdateTimeout names
    orphanTimers,       \* pending timers no handle names any more
    masterFetch,        \* the fetch of start(): idle, pending, settled
    pending,            \* media requests issued, not answered, not aborted
    nreq,               \* media requests issued so far
    emitted,            \* notifications of the last operation
    changing,           \* mediachanging was emitted, and no mediachange since
    op,                 \* the last operation
    call                \* the last call of a merge function on its own

vars ==
    <<state, started, master, objs, media_, xhr_, bandwidth, refreshDelay,
      targetDuration, expired_, trackExpiredTime_, error, mediaUpdateTimeout,
      orphanTimers, masterFetch, pending, nreq, emitted, changing, op,
      call>>

\* the state of the loader: everything but the record of a function call
loaderVars ==
    <<state, started, master, objs, media_, xhr_, bandwidth, refreshDelay,
      targetDuration, expired_, trackExpiredTime_, error, mediaUpdateTimeout,
      orphanTimers, masterFetch, pending, nreq, emitted, changing, op>>

\* this.trigger(e), seen by a subscriber: after the notifications e of an
\* operation, is a mediachanging waiting for its mediachange
Changing(e) ==
    IF e = <<>> THEN changing
    ELSE IF e[Len(e)] = "mediachanging" THEN TRUE
    ELSE IF e[Len(e)] = "mediachange" THEN FALSE
    ELSE changing

\* the record of the last operation: its name, the URI it was about, how it
\* ended, whether it was a response to a request stopped before, and the
\* targetDuration of the manifest of a response
Op(name, arg, outcome) ==
    [name |-> name, arg |-> arg, outcome |-> outcome, stale |-> FALSE,
     td |-> NoNum]

\* ---- the merge functions

\* mutant of AssignSegment: the fields of the outdated segment win
AssignSegmentTargetWins(target, source) ==
    [uri |-> IF target.uri # NoNum THEN target.uri ELSE source.uri,
     duration |-> IF target.duration # NoNum THEN target.duration
                  ELSE source.duration,
     start |-> IF target.start # NoNum THEN target.start ELSE source.start,
     end |-> IF target.end # NoNum THEN target.end ELSE source.end,
     resolvedUri |-> IF target.resolvedUri # NoNum THEN target.resolvedUri
                     ELSE source.resolvedUri,
     key |-> IF target.key # NoKey THEN target.key ELSE source.key,
     map |-> IF target.map # NoKey THEN target.map ELSE source.map]

\* Object.assign(target, source) on two segments: the fields source has win;
\* key and map are objects, copied by reference as a whole
AssignSegment(target, source) ==
    [uri |-> IF source.uri # NoNum THEN source.uri ELSE target.uri,
     duration |-> IF source.duration # NoNum THEN source.duration
                  ELSE target.duration,
     start |-> IF source.start # NoNum THEN source.start ELSE target.start,
     end |-> IF source.end # NoNum THEN source.end ELSE target.end,
     resolvedUri |-> IF source.resolvedUri # NoNum THEN source.resolvedUri
                     ELSE target.resolvedUri,
     key |-> IF source.key # NoKey THEN source.key ELSE target.key,
     map |-> IF source.map # NoKey THEN source.map ELSE target.map]

\* updateSegments reads original[i] for i < 0 when the offset is negative:
\* Object.assign(undefined, ...) throws a TypeError
UpdateSegmentsThrows(original, update, offset) ==
    offset < 0 /\ offset < Min(Len(original), Len(update) + offset)

UpdateSegments(original, update, offset) ==
    LET length == Min(Len(original), Len(update) + offset)
    IN  [k \in 1..Len(update) |->
            LET i == k - 1 + offset
            IN  IF i >= 0 /\ i < length
                THEN AssignSegment(original[i + 1], update[k])
                ELSE update[k]]

\* Object.assign(playlist, media): uri, segments and mediaSequence are always
\* fields of media, targetDuration and endList only when their tags were seen
AssignPlaylist(playlist, media) ==
    [playlist EXCEPT
        !.uri = media.uri,
        !.hasSegments = TRUE,
        !.segments = media.segments,
        !.mediaSequence = media.mediaSequence,
        !.targetDuration = IF media.targetDuration # NoNum
                           THEN media.targetDuration ELSE @,
        !.endList = media.endList \/ @]

\* a key or a map with its resolvedUri filled when it has none
ResolveKey(base, key) ==
    IF key # NoKey /\ key.resolvedUri = NoNum
    THEN [key EXCEPT !.resolvedUri = ResolveURL(base, key.uri)]
    ELSE key

\* mutant of ResolveSegments: every resolvedUri is computed again, set or not
ResolveSegmentsAlways(playlist) ==
    [playlist EXCEPT !.segments =
        [k \in 1..Len(playlist.segments) |->
            LET segment == playlist.segments[k]
            IN  [segment EXCEPT
                    !.resolvedUri =
                        ResolveURL(playlist.resolvedUri, segment.uri),
                    !.key = IF @ = NoKey THEN @
                            ELSE [uri |-> segment.key.uri,
                                  resolvedUri |->
                                     ResolveURL(playlist.resolvedUri,
                                                segment.key.uri)],
                    !.map = IF @ = NoKey THEN @
                            ELSE [uri |-> segment.map.uri,
                                  resolvedUri |->
                                     ResolveURL(playlist.resolvedUri,
                                                segment.map.uri)]]]]

\* the loop that fills the resolvedUri of the segments, of their keys and of
\* their maps that have none
ResolveSegments(playlist) ==
    [playlist EXCEPT !.segments =
        [k \in 1..Len(playlist.segments) |->
            LET segment == playlist.segments[k]
            IN  [segment EXCEPT
                    !.resolvedUri =
                        IF @ = NoNum
                        THEN ResolveURL(playlist.resolvedUri, segment.uri)
                        ELSE @,
                    !.key = ResolveKey(playlist.resolvedUri, @),
                    !.map = ResolveKey(playlist.resolvedUri, @)]]]

\* mutant of Unchanged: the media sequence is not compared
UnchangedIgnoresSequence(playlist, media) ==
    /\ playlist.hasSegments
    /\ Len(playlist.segments) = Len(media.segments)

\* the playlist is unchanged: same number of segments, same media sequence
Unchanged(playlist, media) ==
    /\ playlist.hasSegments
    /\ Len(playlist.segments) = Len(media.segments)
    /\ playlist.mediaSequence = media.mediaSequence

\* what updateMaster does to the one playlist object: the overlay is made in
\* place, so the segments and the media sequence read afterwards are those of
\* the update
MergePlaylist(playlist, media) ==
    LET overlaid == AssignPlaylist(playlist, media)
        merged == IF overlaid.hasSegments
                  THEN [overlaid EXCEPT !.segments =
                           UpdateSegments(overlaid.segments, media.segments,
                               media.mediaSequence - overlaid.mediaSequence)]
                  ELSE overlaid
    IN  ResolveSegments(merged)

\* mutant of UpdateMaster: the merged playlist is registered under the
\* update's URI from the wrong index of the list
UpdateMasterWrongEntry(m, heap, media) ==
    LET hit == { i \in 1..Len(m.playlists) :
                    /\ heap[m.playlists[i]].uri = media.uri
                    /\ ~Unchanged(heap[m.playlists[i]], media) }
        refs == { m.playlists[i] : i \in hit }
    IN  [changed |-> hit # {},
         master |-> [m EXCEPT !.byUri =
                        [u \in URIs |->
                            IF u = media.uri /\ hit # {}
                            THEN m.playlists[Len(m.playlists)]
                            ELSE m.byUri[u]]],
         objs |-> [r \in Refs |->
                     IF r \in refs THEN MergePlaylist(heap[r], media)
                     ELSE heap[r]]]

\* updateMaster(master, media): changed = FALSE is the null result
UpdateMaster(m, heap, media) ==
    LET hit == { i \in 1..Len(m.playlists) :
                    /\ heap[m.playlists[i]].uri = media.uri
                    /\ ~Unchanged(heap[m.playlists[i]], media) }
        refs == { m.playlists[i] : i \in hit }
    IN  [changed |-> hit # {},
         master |-> [m EXCEPT !.byUri =
                        [u \in URIs |->
                            IF u = media.uri /\ hit # {}
                            THEN m.playlists[CHOOSE i \in hit : TRUE]
                            ELSE m.byUri[u]]],
         objs |-> [r \in Refs |->
                     IF r \in refs THEN MergePlaylist(heap[r], media)
                     ELSE heap[r]]]

\* ---- the live window

OrDefault(x, d) == IF x = NoNum \/ x = 0 THEN d ELSE x

RECURSIVE Walk(_, _, _)
\* the walk over the outdated playlist, from index i down to 0
Walk(i, exp, outdated) ==
    IF i < 0 THEN exp
    ELSE IF i >= Len(outdated.segments)
    THEN Walk(i - 1, exp + OrDefault(outdated.targetDuration, 10), outdated)
    ELSE LET segment == outdated.segments[i + 1]
         IN  IF segment.end # NoNum THEN segment.end
             ELSE IF segment.start # NoNum
             THEN segment.start + segment.duration
             ELSE Walk(i - 1, exp + segment.duration, outdated)

\* mutant of UpdateMediaPlaylist: the precise end of the first segment is
\* preferred to its precise start
UpdateMediaPlaylistEndFirst(m, heap, old, track, exp, update) ==
    LET outdated == heap[old]
    IN  [media |-> m.byUri[update.uri],
         expired |->
            IF old = 0 THEN exp
            ELSE IF ~track THEN exp
            ELSE IF update.uri # outdated.uri THEN exp
            ELSE IF Len(update.segments) > 0 /\ update.segments[1].end # NoNum
            THEN update.segments[1].end - update.segments[1].duration
            ELSE IF Len(update.segments) > 0 /\ update.segments[1].start # NoNum
            THEN update.segments[1].start
            ELSE Walk(update.mediaSequence - outdated.mediaSequence - 1, exp,
                      outdated)]

\* mutant of UpdateMediaPlaylist: the flag that enables the tracking is not
\* read
UpdateMediaPlaylistAlwaysTracks(m, heap, old, track, exp, update) ==
    LET outdated == heap[old]
    IN  [media |-> m.byUri[update.uri],
         expired |->
            IF old = 0 THEN exp
            ELSE IF update.uri # outdated.uri THEN exp
            ELSE IF Len(update.segments) > 0 /\ update.segments[1].start # NoNum
            THEN update.segments[1].start
            ELSE IF Len(update.segments) > 0 /\ update.segments[1].end # NoNum
            THEN update.segments[1].end - update.segments[1].duration
            ELSE Walk(update.mediaSequence - outdated.mediaSequence - 1, exp,
                      outdated)]

\* updateMediaPlaylist_(update), with the master already merged: outdated is
\* the object this._media names, read as it is after the merge
UpdateMediaPlaylist(m, heap, old, track, exp, update) ==
    LET outdated == heap[old]
    IN  [media |-> m.byUri[update.uri],
         expired |->
            IF old = 0 THEN exp
            ELSE IF ~track THEN exp
            ELSE IF update.uri # outdated.uri THEN exp
            ELSE IF Len(update.segments) > 0 /\ update.segments[1].start # NoNum
            THEN update.segments[1].start
            ELSE IF Len(update.segments) > 0 /\ update.segments[1].end # NoNum
            THEN update.segments[1].end - update.segments[1].duration
            ELSE Walk(update.mediaSequence - outdated.mediaSequence - 1, exp,
                      outdated)]

\* ---- timers
ClearTimeout(handle) == NoTimeout

SetTimeout(delay) == [pending |-> TRUE, delay |-> delay]

PendingTimers == orphanTimers + (IF mediaUpdateTimeout.pending THEN 1 ELSE 0)

\* ---- requests
Request(id, uri, url, startingState) ==
    [id |-> id, uri |-> uri, url |-> url, startingState |-> startingState]

\* abort() on an XHR handle: the request is dropped and never answered
Abort(handle, reqs) == { q \in reqs : q.id # handle.id }

InFlight == Cardinality(pending) + (IF masterFetch = "pending" THEN 1 ELSE 0)


Init ==
    /\ state = "HAVE_NOTHING"
    /\ started = FALSE
    /\ master = NoMaster
    /\ objs = [r \in Refs |-> Stub(r)]
    /\ media_ = 0
    /\ xhr_ = NoXhr
    /\ bandwidth = NoNum
    /\ refreshDelay = NoNum
    /\ targetDuration = NoNum
    /\ expired_ = 0
    /\ trackExpiredTime_ = FALSE
    /\ error = NoError
    /\ mediaUpdateTimeout = NoTimeout
    /\ orphanTimers = 0
    /\ masterFetch = "idle"
    /\ pending = {}
    /\ nreq = 0
    /\ emitted = <<>>
    /\ changing = FALSE
    /\ op = Op("init", 0, "none")
    /\ call = NoCall

\* ---- load() / start()

\* load(): start() the first time, nothing afterwards
Load ==
    IF started
    THEN UNCHANGED vars
    ELSE /\ op' = Op("load", 0, "fetch")
         /\ emitted' = <<>>
         /\ started' = TRUE
         /\ xhr_' = PromiseXhr
         /\ masterFetch' = "pending"
         /\ UNCHANGED <<state, master, objs, media_, bandwidth, refreshDelay,
                        targetDuration, expired_, trackExpiredTime_, error,
                        mediaUpdateTimeout, orphanTimers, pending, nreq,
                        changing, call>>

\* the outcomes of the master fetch: a manifest with playlists, a body
\* without playlists (a media playlist, or the body of an HTTP error, which
\* fetch() resolves with), a rejection (network failure)
MasterOutcomes == {"master", "nomaster", "reject"}

\* the then/catch callbacks of start(): no guard on this._xhr; the response
\* is stale when stopRequest() has taken the Promise out of this._xhr
MasterResponse(outcome) ==
    /\ masterFetch = "pending"
    /\ masterFetch' = "settled"
    /\ op' = [Op("masterResponse", 0, outcome) EXCEPT
                 !.stale = (xhr_.kind # "promise")]
    /\ emitted' = <<>>
    /\ state' = IF outcome = "reject" THEN state ELSE "HAVE_MASTER"
    /\ master' = IF outcome = "master" THEN ParsedMaster ELSE master
    /\ objs' = IF outcome = "master" THEN [r \in Refs |-> Stub(r)] ELSE objs
    /\ UNCHANGED <<started, media_, xhr_, bandwidth, refreshDelay,
                   targetDuration, expired_, trackExpiredTime_, error,
                   mediaUpdateTimeout, orphanTimers, pending, nreq, changing,
                   call>>

\* ---- stopRequest(), pause(), destroy()

\* stopRequest(): xhr = this._xhr after it, reqs = the requests left,
\* threw = abort() was called on the Promise of start()
StopRequest ==
    [xhr |-> NoXhr,
     reqs |-> IF xhr_.kind = "xhr" THEN Abort(xhr_, pending) ELSE pending,
     threw |-> xhr_.kind = "promise"]

\* pause() and destroy(): stopRequest(), then clearTimeout unless it threw
StopAndClear(name) ==
    LET stop == StopRequest
    IN  /\ op' = Op(name, 0, IF stop.threw THEN "threw" ELSE "done")
        /\ emitted' = <<>>
        /\ xhr_' = stop.xhr
        /\ pending' = stop.reqs
        /\ mediaUpdateTimeout' = IF stop.threw THEN mediaUpdateTimeout
                                 ELSE ClearTimeout(mediaUpdateTimeout)
        /\ UNCHANGED <<state, started, master, objs, media_, bandwidth,
                       refreshDelay, targetDuration, expired_,
                       trackExpiredTime_, error, orphanTimers, masterFetch,
                       nreq, changing, call>>

Pause == StopAndClear("pause")

Destroy == StopAndClear("destroy")

\* ---- the refresh timer

\* the timer expires: its callback is empty
TimerExpires ==
    /\ PendingTimers > 0
    /\ op' = Op("timeout", 0, "none")
    /\ emitted' = <<>>
    /\ IF mediaUpdateTimeout.pending
       THEN mediaUpdateTimeout' = NoTimeout /\ UNCHANGED orphanTimers
       ELSE orphanTimers' = orphanTimers - 1 /\ UNCHANGED mediaUpdateTimeout
    /\ UNCHANGED <<state, started, master, objs, media_, xhr_, bandwidth,
                   refreshDelay, targetDuration, expired_, trackExpiredTime_,
                   error, masterFetch, pending, nreq, changing, call>>

\* ---- media(playlist), the setter, called with the URI of a rendition

\* mediaChange: no active playlist, or another one than the target
MediaChange(playlist) == media_ = 0 \/ objs[playlist].uri # objs[media_].uri

\* mutant of SwitchImmediately: a loaded endList target is fetched again
SwitchNever(playlist) == FALSE

\* the target is fully loaded: switch to it immediately
SwitchImmediately(playlist) == objs[master.byUri[objs[playlist].uri]].endList

\* mutant of SameRequest: the test for a duplicate request is left out
SameRequestNever(url) == FALSE

\* there is already an outstanding request for the same resolved URI
SameRequest(url) == xhr_.kind # "null" /\ url = xhr_.url

\* mutant of AbortOutstanding: the outstanding request is not aborted
AbortOmitted(reqs) == reqs

\* this._xhr.abort() of media(): the requests left
AbortOutstanding(reqs) == Abort(xhr_, reqs)

\* media(u) with no master throws before it changes anything: not modelled
Media(u) ==
    /\ master.present
    /\ LET startingState == state
           playlist == master.byUri[u]
           mediaChange == MediaChange(playlist)
           url == ResolveURL(master.uri, objs[playlist].uri)
       IN  IF SwitchImmediately(playlist)
           THEN IF xhr_.kind = "promise"
                THEN /\ op' = Op("media", u, "threw")
                     /\ emitted' = <<>>
                     /\ UNCHANGED <<state, media_, xhr_, pending, nreq>>
                ELSE /\ op' = Op("media", u, "immediate")
                     /\ pending' = IF xhr_.kind = "xhr"
                                   THEN AbortOutstanding(pending) ELSE pending
                     /\ xhr_' = NoXhr
                     /\ state' = "HAVE_METADATA"
                     /\ media_' = playlist
                     /\ emitted' = IF mediaChange
                                   THEN <<"mediachanging", "mediachange">>
                                   ELSE <<>>
                     /\ UNCHANGED nreq
           ELSE IF ~mediaChange
           THEN /\ op' = Op("media", u, "active")
                /\ emitted' = <<>>
                /\ UNCHANGED <<state, media_, xhr_, pending, nreq>>
           ELSE IF SameRequest(url)
           THEN /\ op' = Op("media", u, "same")
                /\ state' = "SWITCHING_MEDIA"
                /\ emitted' = <<>>
                /\ UNCHANGED <<media_, xhr_, pending, nreq>>
           ELSE IF xhr_.kind = "promise"
           THEN /\ op' = Op("media", u, "threw")
                /\ state' = "SWITCHING_MEDIA"
                /\ emitted' = <<>>
                /\ UNCHANGED <<media_, xhr_, pending, nreq>>
           ELSE /\ nreq < MaxRequests
                /\ op' = Op("media", u, "fetch")
                /\ state' = "SWITCHING_MEDIA"
                /\ emitted' = IF media_ # 0 THEN <<"mediachanging">> ELSE <<>>
                /\ nreq' = nreq + 1
                /\ xhr_' = XhrHandle(nreq + 1, url)
                /\ pending' =
                      (IF xhr_.kind = "xhr" THEN AbortOutstanding(pending)
                       ELSE pending)
                      \cup {Request(nreq + 1, objs[playlist].uri, url,
                                    startingState)}
                /\ UNCHANGED media_
    /\ changing' = Changing(emitted')
    /\ UNCHANGED <<started, master, objs, bandwidth, refreshDelay,
                   targetDuration, expired_, trackExpiredTime_, error,
                   mediaUpdateTimeout, orphanTimers, masterFetch, call>>

\* ---- the response callback of media()

\* xhr.bandwidth of an answered request: the estimate of its transfer
BandwidthOf(q) == 1000 + q.uri

\* the statuses of a failed request: 0 is a network-level failure
ErrorStatuses == {0, 404, 500}

\* mutant of ErrorCode: a failure without a status is fatal too
ErrorCodeNoStatusFatal(status) == IF status >= 500 \/ status = 0 THEN 4 ELSE 2

\* the severity code of onPlaylistRequestError: 4 is fatal, 2 recoverable
ErrorCode(status) == IF status >= 500 THEN 4 ELSE 2

\* the state onPlaylistRequestError leaves
StateAfterError(startingState) == startingState

\* the response is an error: onPlaylistRequestError(this._xhr, uri,
\* startingState), unless the loader was disposed of (this._xhr is null);
\* this._xhr is the handle of the answered request, whose status is read
MediaFailed(q, status) ==
    /\ q \in pending
    /\ pending' = pending \ {q}
    /\ emitted' = <<>>
    /\ IF xhr_.kind = "null"
       THEN /\ op' = Op("failed", q.uri, "disposed")
            /\ UNCHANGED <<state, xhr_, bandwidth, error>>
       ELSE /\ op' = Op("failed", q.uri, "error")
            /\ bandwidth' = BandwidthOf(q)
            /\ xhr_' = NoXhr
            /\ state' = StateAfterError(q.startingState)
            /\ error' = [playlist |-> master.byUri[q.uri],
                         status |-> status,
                         code |-> ErrorCode(status)]
    /\ UNCHANGED <<started, master, objs, media_, refreshDelay,
                   targetDuration, expired_, trackExpiredTime_,
                   mediaUpdateTimeout, orphanTimers, masterFetch, nreq,
                   changing, call>>

\* mutant of RefreshDelay: the delay is halved after an accepted merge too
RefreshDelayHalved(manifest, changed) ==
    (OrDefault(manifest.targetDuration, 10) * 1000) \div 2

\* mutant of RefreshDelay: the delay is not halved after a no-op merge
RefreshDelayNeverHalved(manifest, changed) ==
    OrDefault(manifest.targetDuration, 10) * 1000

\* this.refreshDelay of haveMetadata
RefreshDelay(manifest, changed) ==
    IF changed THEN OrDefault(manifest.targetDuration, 10) * 1000
    ELSE (OrDefault(manifest.targetDuration, 10) * 1000) \div 2

\* the notification of a loaded media playlist
LoadedNotification(startingState) ==
    IF startingState = "HAVE_MASTER" THEN "loadedmetadata" ELSE "mediachange"

\* the response is a manifest: haveMetadata(req, uri), then the notification
MediaLoaded(q, manifest) ==
    /\ q \in pending
    /\ pending' = pending \ {q}
    /\ IF xhr_.kind = "null"
       THEN /\ op' = Op("loaded", q.uri, "disposed")
            /\ emitted' = <<>>
            /\ UNCHANGED <<state, master, objs, media_, xhr_, bandwidth,
                           refreshDelay, targetDuration, expired_,
                           mediaUpdateTimeout, orphanTimers>>
       ELSE LET parsed == [segments |-> manifest.segments,
                           mediaSequence |-> manifest.mediaSequence,
                           targetDuration |-> manifest.targetDuration,
                           endList |-> manifest.endList,
                           uri |-> q.uri]
                update == UpdateMaster(master, objs, parsed)
                heap == IF update.changed THEN update.objs ELSE objs
                m == IF update.changed THEN update.master ELSE master
                tracked == UpdateMediaPlaylist(m, heap, media_,
                               trackExpiredTime_, expired_, parsed)
                active == IF update.changed THEN tracked.media ELSE media_
                delay == RefreshDelay(parsed, update.changed)
                cleared == ClearTimeout(mediaUpdateTimeout)
            IN  /\ op' = [Op("loaded", q.uri,
                               IF update.changed THEN "accepted"
                               ELSE "unchanged")
                           EXCEPT !.td = parsed.targetDuration]
                /\ bandwidth' = BandwidthOf(q)
                /\ refreshDelay' = delay
                /\ targetDuration' = parsed.targetDuration
                /\ xhr_' = xhr_
                /\ state' = "HAVE_METADATA"
                /\ master' = m
                /\ objs' = heap
                /\ media_' = active
                /\ expired_' = IF update.changed THEN tracked.expired
                               ELSE expired_
                /\ IF ~heap[active].endList
                   THEN /\ mediaUpdateTimeout' = SetTimeout(delay)
                        /\ orphanTimers' = orphanTimers +
                               (IF cleared.pending THEN 1 ELSE 0)
                   ELSE UNCHANGED <<mediaUpdateTimeout, orphanTimers>>
                /\ emitted' = <<LoadedNotification(q.startingState)>>
    /\ changing' = Changing(emitted')
    /\ UNCHANGED <<started, trackExpiredTime_, error, masterFetch, nreq,
                   call>>

Next ==
    \/ Load
    \/ \E outcome \in MasterOutcomes : MasterResponse(outcome)
    \/ \E u \in URIs : Media(u)
    \/ \E q \in pending : \E manifest \in Manifests : MediaLoaded(q, manifest)
    \/ \E q \in pending : \E status \in ErrorStatuses : MediaFailed(q, status)
    \/ TimerExpires
    \/ Pause
    \/ Destroy

Spec == Init /\ [][Next]_vars

\* ---- the merge functions, called on their own

\* the segments of an outdated list: one with timing and a resolved URI,
\* one as the parser left it
OriginalSegments ==
    { [uri |-> 1, duration |-> 4, start |-> 0, end |-> NoNum,
       resolvedUri |-> 101, key |-> NoKey, map |-> NoKey],
      [uri |-> 2, duration |-> 4, start |-> NoNum, end |-> NoNum,
       resolvedUri |-> NoNum, key |-> NoKey, map |-> NoKey] }

\* the segments of an update: one as the parser leaves it, one of another
\* duration that carries its end
UpdateSegmentValues ==
    { MkSeg(1),
      [uri |-> 3, duration |-> 5, start |-> NoNum, end |-> 9,
       resolvedUri |-> NoNum, key |-> NoKey, map |-> NoKey] }

\* the lists of at most MaxSegments segments
SegmentLists(S) == UNION { [1..n -> S] : n \in 0..MaxSegments }

\* the offsets: the media sequence went backward, stayed, or advanced up to
\* past the end of the lists
Offsets == (0 - 1)..(MaxSegments + 1)

\* updateSegments(original, update, offset), on arguments of its own
CallUpdateSegments ==
    /\ call.fn = "none"
    /\ \E original \in SegmentLists(OriginalSegments),
          update \in SegmentLists(UpdateSegmentValues),
          offset \in Offsets :
          call' = [fn |-> "updateSegments", original |-> original,
                   update |-> update, offset |-> offset,
                   threw |-> UpdateSegmentsThrows(original, update, offset),
                   result |->
                      IF UpdateSegmentsThrows(original, update, offset)
                      THEN <<>>
                      ELSE UpdateSegments(original, update, offset)]
    /\ UNCHANGED loaderVars

\* the media sequence numbers of an update merged into a cached snapshot
UpdateSequences == 0..2

\* the first segment of a parsed list as it can reach the merge: as the
\* parser left it, with a resolved URI of its own, with a precise start,
\* with a precise end, with a key or a map, resolved already or not
Decorations ==
    {"plain", "resolved", "start", "end", "startEnd", "key", "keyResolved",
     "map", "mapResolved"}

\* those that bear on the expired time
TimingDecorations == {"plain", "start", "end", "startEnd"}

Decorate(segments, d) ==
    [k \in 1..Len(segments) |->
        IF k # 1 \/ d = "plain" THEN segments[k]
        ELSE IF d = "resolved" THEN [segments[k] EXCEPT !.resolvedUri = 555]
        ELSE IF d = "start" THEN [segments[k] EXCEPT !.start = 40]
        ELSE IF d = "end" THEN [segments[k] EXCEPT !.end = 44]
        ELSE IF d = "startEnd"
        THEN [segments[k] EXCEPT !.start = 40, !.end = 50]
        ELSE IF d = "key"
        THEN [segments[k] EXCEPT !.key = [uri |-> 7, resolvedUri |-> NoNum]]
        ELSE IF d = "keyResolved"
        THEN [segments[k] EXCEPT !.key = [uri |-> 7, resolvedUri |-> 777]]
        ELSE IF d = "map"
        THEN [segments[k] EXCEPT !.map = [uri |-> 8, resolvedUri |-> NoNum]]
        ELSE [segments[k] EXCEPT !.map = [uri |-> 8, resolvedUri |-> 888]]]

\* a parsed media manifest for the URI u: n segments from media sequence s
MediaUpdate(u, s, n, d) ==
    [segments |-> Decorate(MkSegs(s, n), d), mediaSequence |-> s,
     targetDuration |-> 6, endList |-> FALSE, uri |-> u]

\* the updates merged: for a rendition of the master, or for a URI the
\* master does not have
MediaUpdates ==
    { MediaUpdate(u, s, n, d) :
        u \in 1..(NumRenditions + 1), s \in UpdateSequences,
        n \in 0..MaxSegments, d \in Decorations }

\* the timing the playback side writes on the segments it has buffered
TimedSegments(segments, timed) ==
    [k \in 1..Len(segments) |->
        IF timed
        THEN [segments[k] EXCEPT !.start = (k - 1) * 4, !.end = k * 4]
        ELSE segments[k]]

\* the cached snapshots of rendition 1: not loaded, or loaded by an earlier
\* merge, with or without timing on its segments
CachedSnapshots ==
    {Stub(1)} \cup
    { [MergePlaylist(Stub(1), MediaUpdate(1, s, n, "plain")) EXCEPT
          !.segments = TimedSegments(@, timed)] :
        s \in SeqNumbers, n \in 0..MaxSegments, timed \in BOOLEAN }

\* the playlist objects of a master whose rendition 1 is the snapshot cached
HeapWith(cached) == [r \in Refs |-> IF r = 1 THEN cached ELSE Stub(r)]

\* updateMaster(master, media) on a master of its own, and once more with
\* the same media on what it left
CallUpdateMaster ==
    /\ call.fn = "none"
    /\ \E cached \in CachedSnapshots, media \in MediaUpdates :
          LET first == UpdateMaster(ParsedMaster, HeapWith(cached), media)
              again == UpdateMaster(first.master, first.objs, media)
          IN  call' = [fn |-> "updateMaster", before |-> HeapWith(cached),
                       media |-> media, changed |-> first.changed,
                       master |-> first.master, after |-> first.objs,
                       changedAgain |-> again.changed,
                       masterAgain |-> again.master,
                       afterAgain |-> again.objs]
    /\ UNCHANGED loaderVars

\* the expired time before the response: none yet, or some
ExpiredBefore == {0, 7}

\* the playlist this._media names before the response: none, or rendition 1
\* when it was loaded before
ActiveBefore(cached) == IF cached.hasSegments THEN {0, 1} ELSE {0}

\* haveMetadata(xhr, url), its merge and its live window: updateMaster, and
\* updateMediaPlaylist_ when the merge was accepted
CallHaveMetadata ==
    /\ call.fn = "none"
    /\ \E cached \in CachedSnapshots, u \in 1..(NumRenditions + 1),
          s \in UpdateSequences, n \in 0..MaxSegments,
          d \in TimingDecorations, track \in BOOLEAN, exp \in ExpiredBefore :
          \E old \in ActiveBefore(cached) :
             LET media == MediaUpdate(u, s, n, d)
                 update == UpdateMaster(ParsedMaster, HeapWith(cached), media)
                 tracked == UpdateMediaPlaylist(update.master, update.objs,
                                old, track, exp, media)
             IN  call' = [fn |-> "haveMetadata", before |-> HeapWith(cached),
                          media |-> media, old |-> old, track |-> track,
                          expired |-> exp, changed |-> update.changed,
                          after |-> update.objs,
                          newMedia |-> IF update.changed THEN tracked.media
                                       ELSE old,
                          newExpired |-> IF update.changed
                                         THEN tracked.expired ELSE exp]
    /\ UNCHANGED loaderVars

\* onPlaylistRequestError(xhr, url, startingState): the handler of a failed
\* fetch assigns neither this._media nor this.expired_
CallOnPlaylistRequestError ==
    /\ call.fn = "none"
    /\ \E cached \in CachedSnapshots, status \in ErrorStatuses,
          track \in BOOLEAN, exp \in ExpiredBefore :
          \E old \in ActiveBefore(cached) :
             call' = [fn |-> "onPlaylistRequestError",
                      before |-> HeapWith(cached), status |-> status,
                      code |-> ErrorCode(status), old |-> old,
                      track |-> track, expired |-> exp,
                      after |-> HeapWith(cached), newMedia |-> old,
                      newExpired |-> exp]
    /\ UNCHANGED loaderVars

\* Date.now() at the call
Now == 100

\* playlist.excludeUntil: never set, passed, still to come
ExcludeUntils == {NoNum, 50, 200}

\* playlist.attributes.BANDWIDTH; NoNum is a playlist without attributes
Bandwidths == {NoNum, 500, 800}

\* the playlists of a master as the two functions read them
RenditionLists ==
    [1..(NumRenditions + 1) ->
        [bandwidth : Bandwidths, excludeUntil : ExcludeUntils]]

\* enabledPlaylists(): the playlists whose exclusion is unset or over
EnabledPlaylists(playlists) ==
    Cardinality({ i \in DOMAIN playlists :
                    \/ playlists[i].excludeUntil = NoNum
                    \/ playlists[i].excludeUntil = 0
                    \/ playlists[i].excludeUntil <= Now })

\* isLowestEnabledRendition_(), active the index of this.media(), 0 for none
IsLowestEnabledRendition(playlists, active) ==
    IF active = 0 \/ playlists[active].bandwidth = NoNum THEN FALSE
    ELSE LET currentBandwidth == OrDefault(playlists[active].bandwidth, 0)
             counted ==
                { i \in DOMAIN playlists :
                    LET playlist == playlists[i]
                        enabled == \/ playlist.excludeUntil = NoNum
                                   \/ playlist.excludeUntil <= Now
                        itsBandwidth == IF playlist.bandwidth # NoNum
                                        THEN playlist.bandwidth ELSE 0
                    IN  enabled /\ itsBandwidth <= currentBandwidth }
         IN  ~(Cardinality(counted) > 1)

\* isLowestEnabledRendition_() and enabledPlaylists() on a master of their own
CallIsLowestEnabledRendition ==
    /\ call.fn = "none"
    /\ \E playlists \in RenditionLists, active \in 0..(NumRenditions + 1) :
          call' = [fn |-> "isLowestEnabledRendition_",
                   playlists |-> playlists, active |-> active,
                   enabledPlaylists |-> EnabledPlaylists(playlists),
                   result |-> IsLowestEnabledRendition(playlists, active)]
    /\ UNCHANGED loaderVars

MergeNext ==
    \/ CallUpdateSegments
    \/ CallUpdateMaster
    \/ CallHaveMetadata
    \/ CallOnPlaylistRequestError
    \/ CallIsLowestEnabledRendition

MergeSpec == Init /\ [][MergeNext]_vars

\* a timer armed with setTimeout and not cleared does expire
LiveSpec == Spec /\ WF_vars(TimerExpires)

\* ---------------------------------------------------------------- claims

\* the rendition u is the active one
IsActive(u) == media_ # 0 /\ objs[media_].uri = u

\* a request for the rendition u is outstanding
Outstanding(u) == \E q \in pending : q.uri = u

\* C1 (as claimed): media(u) for the active rendition u issues no fetch,
\* aborts no request, leaves the state, the active playlist and the timer
\* unchanged and emits no notification, in every state.
C1_ActiveSwitchIsNoOp ==
    [][\A u \in URIs :
          (op'.name = "media" /\ op'.arg = u /\ IsActive(u))
          => /\ UNCHANGED <<state, media_, pending, nreq, mediaUpdateTimeout,
                            orphanTimers>>
             /\ emitted' = <<>>]_vars

\* C2: media(u) called again while the request of an earlier media(u) is
\* outstanding issues no fetch and aborts nothing: the request count, the
\* requests in flight and the handle stay as they are.
C2_DuplicateSwitchDebounced ==
    [][\A u \in URIs :
          (op'.name = "media" /\ op'.arg = u /\ Outstanding(u))
          => /\ nreq' = nreq
             /\ pending' = pending
             /\ xhr_' = xhr_]_vars

\* C2 witness: a duplicate media(u) was debounced with the request in flight
C2_Witness ==
    /\ op.name = "media" /\ op.outcome = "same"
    /\ Outstanding(op.arg)
    /\ xhr_.kind = "xhr"

\* C3 (as claimed): the response to a request that was stopped before it
\* arrived changes neither the state, the master, the active playlist, the
\* bandwidth, the expired time nor the timer, and emits nothing.
C3_StaleResponseDiscarded ==
    [][(op'.name \in {"masterResponse", "loaded", "failed"} /\ op'.stale)
          => /\ UNCHANGED <<state, master, objs, media_, bandwidth, expired_,
                            mediaUpdateTimeout>>
             /\ emitted' = <<>>]_vars

\* C4: at most one playlist request is in flight and at most one refresh
\* timer is pending, in every reachable state.
C4_OneRequestOneTimer == InFlight <= 1 /\ PendingTimers <= 1

\* C4 witness: a switch issued its request after another request had been
\* issued, with the refresh timer of the active playlist still pending
C4_Witness ==
    /\ op.name = "media" /\ op.outcome = "fetch"
    /\ nreq >= 2
    /\ InFlight = 1
    /\ PendingTimers = 1

\* C5 (as claimed): after the response to a switch to u is applied as a
\* success, the state is HAVE_METADATA and the active playlist is the
\* master's entry for u, whatever the snapshot is relative to the cached one.
C5_SuccessAdoptsTarget ==
    (op.name = "loaded" /\ op.outcome \in {"accepted", "unchanged"})
    => /\ state = "HAVE_METADATA"
       /\ media_ = master.byUri[op.arg]

\* C6 (as claimed): after a failed switch the state is HAVE_MASTER or
\* HAVE_METADATA and the active playlist is the one active before.
C6_FailureRevertsToStableState ==
    [][(op'.name = "failed" /\ op'.outcome = "error")
          => /\ state' \in {"HAVE_MASTER", "HAVE_METADATA"}
             /\ media_' = media_]_vars

\* C7: media(u) for a rendition that is loaded and marked endList issues no
\* fetch, leaves no request outstanding, makes u the active playlist, leaves
\* the state HAVE_METADATA, and emits mediachange if u was not active.
C7_EndListSwitchIsImmediate ==
    [][\A u \in URIs :
          (/\ op'.name = "media" /\ op'.arg = u
           /\ master.present
           /\ objs[master.byUri[u]].hasSegments
           /\ objs[master.byUri[u]].endList)
          => /\ nreq' = nreq
             /\ pending' = {}
             /\ xhr_' = NoXhr
             /\ media_' = master.byUri[u]
             /\ state' = "HAVE_METADATA"
             /\ (~IsActive(u) =>
                    emitted' = <<"mediachanging", "mediachange">>)]_vars

\* C7 witness: an immediate switch to an endList rendition that was not the
\* active one
C7_Witness ==
    /\ op.name = "media" /\ op.outcome = "immediate"
    /\ emitted = <<"mediachanging", "mediachange">>
    /\ media_ # 0 /\ objs[media_].endList /\ objs[media_].uri = op.arg
    /\ state = "HAVE_METADATA"

\* the active playlist is live and its refresh timer is armed
LiveAndArmed ==
    /\ state = "HAVE_METADATA"
    /\ media_ # 0 /\ ~objs[media_].endList
    /\ op.name = "loaded"
    /\ mediaUpdateTimeout.pending

\* C8 (as claimed): once the active playlist is live and loaded, then unless
\* a switch, pause or destroy intervenes, a fetch for the active URI is
\* eventually issued.
C8_RefreshEventuallyFetches ==
    LiveAndArmed ~>
        (\/ (media_ # 0 /\ Outstanding(objs[media_].uri))
         \/ op.name \in {"media", "pause", "destroy"})

\* C9 (as claimed): no refresh timer is pending while the active playlist
\* has endList true.
C9_NoTimerOnEndList ==
    (media_ # 0 /\ objs[media_].endList) => PendingTimers = 0

\* C10: after a response whose merge is accepted, for a playlist that is not
\* endList, the timer is armed with targetDuration * 1000 ms of the fetched
\* manifest, or 10000 ms when it has no targetDuration.
C10_RefreshDelayIsTargetDuration ==
    (op.name = "loaded" /\ op.outcome = "accepted" /\ ~objs[media_].endList)
    => /\ mediaUpdateTimeout.pending
       /\ mediaUpdateTimeout.delay =
             (IF op.td = NoNum THEN 10000 ELSE op.td * 1000)

\* C10 witness: an accepted response for a live playlist with a target
\* duration of 6 seconds, the timer armed for it
C10_Witness ==
    /\ op.name = "loaded" /\ op.outcome = "accepted"
    /\ ~objs[media_].endList
    /\ op.td = 6
    /\ mediaUpdateTimeout = [pending |-> TRUE, delay |-> 6000]

\* C11 (as claimed): the delay armed after a no-op response is half of the
\* refresh delay computed before it, so a no-op that follows a no-op for the
\* same target duration arms a quarter of the target duration, and so on.
C11_NoOpHalvesPreviousDelay ==
    [][(/\ op'.name = "loaded" /\ op'.outcome = "unchanged"
        /\ media_' # 0 /\ ~objs'[media_'].endList
        /\ targetDuration = op'.td)
          => mediaUpdateTimeout'.delay * 2 = refreshDelay]_vars

\* C11 (amended): the delay armed after a no-op response, when the active
\* playlist is live, is half of targetDuration * 1000 ms of the fetched
\* manifest (of 10000 ms when it has none), whatever was computed before.
C11_NoOpArmsHalfTargetDuration ==
    (/\ op.name = "loaded" /\ op.outcome = "unchanged"
     /\ media_ # 0 /\ ~objs[media_].endList)
    => /\ mediaUpdateTimeout.pending
       /\ mediaUpdateTimeout.delay =
             (IF op.td = NoNum THEN 10000 ELSE op.td * 1000) \div 2
       /\ refreshDelay = mediaUpdateTimeout.delay

\* C11 witness: a no-op response for a manifest with a target duration of 6
\* seconds, the fourth request of the loader, armed the timer with 3000 ms
C11_Witness ==
    /\ op.name = "loaded" /\ op.outcome = "unchanged"
    /\ media_ # 0 /\ ~objs[media_].endList
    /\ op.td = 6
    /\ nreq = 4
    /\ mediaUpdateTimeout = [pending |-> TRUE, delay |-> 3000]

\* C12 (as claimed): every failed playlist fetch, of the master or of a media
\* playlist, emits exactly one error notification.
C12_FailureEmitsError ==
    (\/ (op.name = "failed" /\ op.outcome = "error")
     \/ (op.name = "masterResponse" /\ op.outcome = "reject"))
    => emitted = <<"error">>

\* C13 (as claimed): the severity recorded for a failed fetch is fatal (4)
\* when the status is at least 500 or there is no status (0), recoverable (2)
\* when the status is in 400..499.
C13_NoStatusIsFatal ==
    (op.name = "failed" /\ op.outcome = "error")
    => /\ (error.status >= 500 \/ error.status = 0) => error.code = 4
       /\ error.status \in 400..499 => error.code = 2

\* C13 (amended): the severity recorded is fatal when the status is at least
\* 500, and recoverable otherwise: for a status in 400..499 and also when
\* there is no status.
C13_FatalOnlyFrom500 ==
    (op.name = "failed" /\ op.outcome = "error")
    => /\ error.status >= 500 => error.code = 4
       /\ error.status \in 400..499 => error.code = 2
       /\ error.status = 0 => error.code = 2

\* C13 witness: a request failed without a status and was recorded as
\* recoverable
C13_Witness ==
    /\ op.name = "failed" /\ op.outcome = "error"
    /\ error.status = 0 /\ error.code = 2

\* C14 (as claimed): destroy() fails in no state and leaves the request
\* handle cleared, no request in flight and no refresh timer pending.
C14_DestroyStopsEverything ==
    op.name = "destroy"
    => /\ op.outcome = "done"
       /\ xhr_ = NoXhr
       /\ InFlight = 0
       /\ PendingTimers = 0

\* C15 (as claimed): the state is HAVE_MASTER only with the master present
\* and every rendition registered by its URI; after a master response that
\* is a failure (a rejected fetch, or a body that is no master playlist) the
\* state is still HAVE_NOTHING and no fetch is in flight.
C15_HaveMasterOnlyOnSuccess ==
    /\ state = "HAVE_MASTER"
          => /\ master.present
             /\ \A i \in 1..Len(master.playlists) :
                   master.byUri[objs[master.playlists[i]].uri]
                       = master.playlists[i]
    /\ (op.name = "masterResponse" /\ op.outcome # "master")
          => state = "HAVE_NOTHING" /\ InFlight = 0

\* C16: with the master loaded, after any sequence of accepted or rejected
\* merges, the entry at every index of master.playlists is the very object
\* the lookup of its URI gives.
C16_IndexAndUriAlias ==
    master.present
    => \A i \in 1..Len(master.playlists) :
          master.byUri[objs[master.playlists[i]].uri] = master.playlists[i]

\* C16 witness: a merge was accepted for a rendition that had been merged
\* before, and the merged object is the one both lookups give
C16_Witness ==
    /\ op.name = "loaded" /\ op.outcome = "accepted"
    /\ nreq >= 3
    /\ \E i \in 1..Len(master.playlists) :
          /\ objs[master.playlists[i]].uri = op.arg
          /\ master.byUri[op.arg] = master.playlists[i]
          /\ objs[master.playlists[i]].mediaSequence = 1

\* C17 (as claimed): the response that is the first successful load of a
\* media playlist (no playlist was active before it) emits loadedmetadata and
\* no mediachange, and no later response emits loadedmetadata, also when the
\* request was issued while an earlier first request was outstanding.
C17_LoadedMetadataOnFirstLoad ==
    [][(op'.name = "loaded" /\ op'.outcome \in {"accepted", "unchanged"})
          => IF media_ = 0
             THEN emitted' = <<"loadedmetadata">>
             ELSE emitted' = <<"mediachange">>]_vars

\* C18 (as claimed): every mediachange is preceded by the mediachanging of
\* its switch, emitted after the mediachange before it: no mediachange is
\* emitted without its mediachanging.
C18_ChangingBeforeChange ==
    [][(emitted' # <<>> /\ emitted'[Len(emitted')] = "mediachange")
          => \/ changing
             \/ emitted' = <<"mediachanging", "mediachange">>]_vars

\* the number of positions updateSegments merges from: the bound of its loop
Overlap(original, update, offset) ==
    Min(Len(original), Len(update) + offset)

\* C19: for every offset from 0 to the length of original, updateSegments
\* returns a list as long as update; at every position that overlaps
\* original, each field has the update's value when the update segment has
\* the field and the original's value otherwise; every other position holds
\* the update segment as it is.
C19_MergeSegmentsOverlay ==
    (/\ call.fn = "updateSegments"
     /\ call.offset >= 0 /\ call.offset <= Len(call.original))
    => /\ ~call.threw
       /\ Len(call.result) = Len(call.update)
       /\ \A k \in 1..Len(call.update) :
             LET i == k - 1 + call.offset
                 r == call.result[k]
                 u == call.update[k]
             IN  IF i < Overlap(call.original, call.update, call.offset)
                 THEN LET o == call.original[i + 1]
                      IN  /\ r.uri = (IF u.uri # NoNum THEN u.uri ELSE o.uri)
                          /\ r.duration = (IF u.duration # NoNum
                                           THEN u.duration ELSE o.duration)
                          /\ r.start = (IF u.start # NoNum THEN u.start
                                        ELSE o.start)
                          /\ r.end = (IF u.end # NoNum THEN u.end ELSE o.end)
                          /\ r.resolvedUri = (IF u.resolvedUri # NoNum
                                              THEN u.resolvedUri
                                              ELSE o.resolvedUri)
                 ELSE r = u

\* C19 witness: two segments merged at offset 1 onto two: the first keeps
\* the start and the resolved URI only the outdated segment had and takes the
\* uri of the update, the second is the update segment as it is
C19_Witness ==
    /\ call.fn = "updateSegments" /\ call.offset = 1
    /\ Len(call.original) = 2 /\ Len(call.update) = 2
    /\ call.original[2].uri = 1 /\ call.update[1].uri = 3
    /\ call.result[1].start = 0 /\ call.result[1].resolvedUri = 101
    /\ call.result[1].uri = 3 /\ call.result[1].duration = 5
    /\ call.result[2] = call.update[2]

C28_SwitchingHasRequest ==
    /\ state = "SWITCHING_MEDIA" => pending # {}
    /\ xhr_.kind = "xhr" => \E q \in pending : q.id = xhr_.id

\* the renditions of the call's master the update is for
Matching(heap, media) == { r \in Refs : heap[r].uri = media.uri }

\* C21 (as claimed): when updateMaster accepts an update for a rendition
\* whose cached snapshot has segments, every merged segment that overlaps a
\* segment of the cached snapshot, at the offset update.mediaSequence -
\* cached.mediaSequence, keeps the start, the end and the resolved URI that
\* segment had and the update segment lacks.
C21_MergeKeepsOldSegmentFields ==
    (call.fn = "updateMaster" /\ call.changed)
    => \A r \in Matching(call.before, call.media) :
          LET old == call.before[r]
              new == call.after[r]
              offset == call.media.mediaSequence - old.mediaSequence
          IN  (old.hasSegments /\ offset >= 0)
              => \A k \in 1..Len(call.media.segments) :
                    (k + offset <= Len(old.segments))
                    => LET o == old.segments[k + offset]
                           u == call.media.segments[k]
                           n == new.segments[k]
                       IN  /\ u.start = NoNum => n.start = o.start
                           /\ u.end = NoNum => n.end = o.end
                           /\ u.resolvedUri = NoNum
                                 => n.resolvedUri = o.resolvedUri

\* C22: updateMaster returns null, with the master and every playlist object
\* as they were, exactly when no rendition has the update's URI or the
\* rendition that has it already holds segments of the same count and the
\* same media sequence; in every other case it returns the master, and only
\* the playlist object of the matching rendition has changed.
C22_NullExactlyWhenNoMatchOrSame ==
    call.fn = "updateMaster"
    => LET match == Matching(call.before, call.media)
           same == \A r \in match :
                      /\ call.before[r].hasSegments
                      /\ Len(call.before[r].segments) = Len(call.media.segments)
                      /\ call.before[r].mediaSequence = call.media.mediaSequence
       IN  /\ ~call.changed <=> (match = {} \/ same)
           /\ ~call.changed
                 => call.after = call.before /\ call.master = ParsedMaster
           /\ call.changed
                 => /\ call.master.playlists = ParsedMaster.playlists
                    /\ \A r \in Refs \ match : call.after[r] = call.before[r]
                    /\ \A u \in URIs \ {call.media.uri} :
                          call.master.byUri[u] = ParsedMaster.byUri[u]
                    /\ \E r \in match : call.after[r] # call.before[r]

\* an update of the same segment count and a later media sequence is merged
C22_Witness ==
    /\ call.fn = "updateMaster"
    /\ call.changed
    /\ call.before[1].hasSegments
    /\ Len(call.before[1].segments) = Len(call.media.segments)
    /\ Len(call.media.segments) > 0
    /\ call.before[1].mediaSequence < call.media.mediaSequence

\* C23: the same update merged a second time returns null and leaves the
\* master and every playlist object as the first merge left them; a resolved
\* URI of a segment, of its key or of its map that the update carries is kept
\* by the merge, one that a cached segment holds is found again at the same
\* position after the merge, and the second merge changes none.
C23_MergeTwiceAndResolvedUriKept ==
    call.fn = "updateMaster"
    => /\ ~call.changedAgain
       /\ call.afterAgain = call.after
       /\ call.masterAgain = call.master
       /\ call.changed
             => \A r \in Matching(call.before, call.media) :
                   LET old == call.before[r]
                       new == call.after[r]
                       offset == call.media.mediaSequence - old.mediaSequence
                   IN  \A k \in 1..Len(call.media.segments) :
                          LET u == call.media.segments[k]
                              n == new.segments[k]
                          IN  /\ n.resolvedUri # NoNum
                              /\ u.resolvedUri # NoNum
                                    => n.resolvedUri = u.resolvedUri
                              /\ u.key.resolvedUri # NoNum => n.key = u.key
                              /\ u.map.resolvedUri # NoNum => n.map = u.map
                              /\ (/\ old.hasSegments
                                  /\ offset >= 0
                                  /\ k + offset <= Len(old.segments)
                                  /\ u.resolvedUri = NoNum)
                                    => n.resolvedUri
                                       = old.segments[k + offset].resolvedUri

\* an update whose first segment has a key resolved already is merged into a
\* snapshot that overlaps it, and merged again
C23_Witness ==
    /\ call.fn = "updateMaster"
    /\ call.changed
    /\ call.before[1].hasSegments
    /\ Len(call.before[1].segments) > 0
    /\ Len(call.media.segments) > 0
    /\ call.media.segments[1].key.resolvedUri = 777
    /\ call.after[1].segments[1].key.resolvedUri = 777
    /\ ~call.changedAgain

\* the response is an accepted refresh of the playlist that was active, with
\* the tracking of the expired time enabled
TrackedRefresh ==
    /\ call.fn = "haveMetadata"
    /\ call.changed
    /\ call.track
    /\ call.old # 0
    /\ call.before[call.old].uri = call.media.uri

RECURSIVE DroppedDuration(_, _)
\* the durations of the first n segments of the playlist, the target
\* duration (10 when absent) standing for a segment the playlist lacks
DroppedDuration(n, playlist) ==
    IF n <= 0 THEN 0
    ELSE (IF n <= Len(playlist.segments) THEN playlist.segments[n].duration
          ELSE OrDefault(playlist.targetDuration, 10))
         + DroppedDuration(n - 1, playlist)

\* no segment of the list carries a precise start or end
Untimed(segments) ==
    \A k \in 1..Len(segments) :
        segments[k].start = NoNum /\ segments[k].end = NoNum

\* C24 (as claimed): with the tracking enabled, an accepted refresh of the
\* active playlist that advances the media sequence, no segment carrying a
\* precise start or end, adds to the expired time the durations of the
\* segments dropped from the old snapshot, its target duration (10 when
\* absent) standing for a dropped segment that is missing.
C24_ExpiredGrowsByDroppedDurations ==
    (/\ TrackedRefresh
     /\ call.media.mediaSequence > call.before[call.old].mediaSequence
     /\ Untimed(call.before[call.old].segments)
     /\ Untimed(call.media.segments))
    => call.newExpired
       = call.expired
         + DroppedDuration(call.media.mediaSequence
                             - call.before[call.old].mediaSequence,
                           call.before[call.old])

\* C25: with the tracking enabled, after an accepted refresh of the active
\* playlist whose first segment carries a precise start the expired time is
\* that start; when it carries no start but a precise end, the expired time
\* is that end less the segment's duration; neither the expired time before
\* nor the segments dropped enter the result.
C25_PreciseTimingSetsExpired ==
    (TrackedRefresh /\ Len(call.media.segments) > 0)
    => LET first == call.media.segments[1]
       IN  /\ first.start # NoNum => call.newExpired = first.start
           /\ (first.start = NoNum /\ first.end # NoNum)
                 => call.newExpired = first.end - first.duration

\* a refresh that drops a segment, its first segment carrying a start and an
\* end, replaces an expired time that was not zero
C25_Witness ==
    /\ TrackedRefresh
    /\ call.expired = 7
    /\ call.media.mediaSequence > call.before[call.old].mediaSequence
    /\ Len(call.media.segments) > 0
    /\ call.media.segments[1].start = 40
    /\ call.media.segments[1].end = 50
    /\ call.newExpired = 40

\* C26: the expired time is the same after an accepted update as before it
\* when the tracking is not enabled, when no playlist was active, or when the
\* update is for another URI than the active playlist's; it is the same too
\* after an update that was refused as unchanged and after a failed fetch.
C26_ExpiredUnchangedOtherwise ==
    /\ (/\ call.fn = "haveMetadata"
        /\ \/ ~call.changed
           \/ ~call.track
           \/ call.old = 0
           \/ call.before[call.old].uri # call.media.uri)
         => call.newExpired = call.expired
    /\ call.fn = "onPlaylistRequestError" => call.newExpired = call.expired

\* an accepted refresh of the active playlist, its first segment carrying a
\* precise start, while the tracking is not enabled
C26_Witness ==
    /\ call.fn = "haveMetadata"
    /\ call.changed
    /\ ~call.track
    /\ call.old # 0
    /\ call.before[call.old].uri = call.media.uri
    /\ Len(call.media.segments) > 0
    /\ call.media.segments[1].start = 40
    /\ call.expired = 7
    /\ call.newExpired = 7

\* the playlists of the call that are not excluded at the time of the call
Eligible(playlists) ==
    { i \in DOMAIN playlists :
        playlists[i].excludeUntil = NoNum \/ playlists[i].excludeUntil <= Now }

\* C27 (as claimed): isLowestEnabledRendition_() is true whenever no playlist
\* that is not excluded has a bandwidth strictly lower than the active
\* playlist's, a playlist of the same bandwidth or an excluded one
\* notwithstanding, and enabledPlaylists() counts the playlists not excluded.
C27_LowestUnlessStrictlyLower ==
    call.fn = "isLowestEnabledRendition_"
    => /\ call.enabledPlaylists = Cardinality(Eligible(call.playlists))
       /\ (/\ call.active # 0
           /\ call.playlists[call.active].bandwidth # NoNum
           /\ \A i \in Eligible(call.playlists) :
                 /\ call.playlists[i].bandwidth # NoNum
                 /\ call.playlists[i].bandwidth
                      >= call.playlists[call.active].bandwidth)
             => call.result = TRUE

====
